---- MODULE Spec2Model ----
(***************************************************************************)
(* Model of backend/run_extraction.py: the bank URL validator, the record  *)
(* builder and the two extraction loops (run_banks, run_nbfcs) with their  *)
(* periodic save.                                                          *)
(*                                                                         *)
(* A Python str is a sequence of one-character strings, so that lower(),   *)
(* split(), replace(), strip() and the substring test `in` are computed    *)
(* character by character as Python computes them.                         *)
(***************************************************************************)
EXTENDS Integers, Sequences, FiniteSets, TLC

VARIABLES mode, total, i, pc, cur, val, results, counts, store, flushed, rested,
          call

vars == <<mode, total, i, pc, cur, val, results, counts, store, flushed, rested,
         call>>

-----------------------------------------------------------------------------
(* Python str operations *)

UPPER == <<"A","B","C","D","E","F","G","H","I","J","K","L","M","N","O","P","Q","R","S","T","U","V","W","X","Y","Z">>
LOWER == <<"a","b","c","d","e","f","g","h","i","j","k","l","m","n","o","p","q","r","s","t","u","v","w","x","y","z">>
DIGITS == <<"0","1","2","3","4","5","6","7","8","9">>
\* the ASCII characters str.split() and str.strip() treat as whitespace
WHITESPACE == {" ", "\t", "\n", "\r"}

\* c.lower() for one character
lower_char(c) ==
    IF \E k \in 1..26 : UPPER[k] = c
    THEN LOWER[CHOOSE k \in 1..26 : UPPER[k] = c]
    ELSE c

\* s.lower()
lower(s) == [k \in 1..Len(s) |-> lower_char(s[k])]

\* t in s  (substring test)
Contains(s, t) ==
    \E k \in 0..(Len(s) - Len(t)) : SubSeq(s, k + 1, k + Len(t)) = t

\* s.replace(old, new): non-overlapping occurrences, left to right
RECURSIVE replace(_, _, _)
replace(s, old, new) ==
    IF Len(s) < Len(old) \/ old = <<>> THEN s
    ELSE IF SubSeq(s, 1, Len(old)) = old
         THEN new \o replace(SubSeq(s, Len(old) + 1, Len(s)), old, new)
         ELSE <<s[1]>> \o replace(Tail(s), old, new)

\* s.split(): the maximal runs of non-whitespace characters
RECURSIVE split(_)
split(s) ==
    IF s = <<>> THEN <<>>
    ELSE IF s[1] \in WHITESPACE THEN split(Tail(s))
    ELSE LET n == CHOOSE k \in 1..Len(s) :
                      /\ \A j \in 1..k : s[j] \notin WHITESPACE
                      /\ (k = Len(s) \/ s[k + 1] \in WHITESPACE)
         IN  <<SubSeq(s, 1, n)>> \o split(SubSeq(s, n + 1, Len(s)))

\* s.split(c)[0]: the part of s before the first occurrence of character c
split_first(s, c) ==
    IF \E k \in 1..Len(s) : s[k] = c
    THEN SubSeq(s, 1, (CHOOSE k \in 1..Len(s) :
                           s[k] = c /\ \A j \in 1..(k - 1) : s[j] # c) - 1)
    ELSE s

\* s.strip(chars): drop leading and trailing characters that are in chars
RECURSIVE lstrip(_, _)
lstrip(s, chars) ==
    IF s # <<>> /\ s[1] \in chars THEN lstrip(Tail(s), chars) ELSE s

RECURSIVE rstrip(_, _)
rstrip(s, chars) ==
    IF s # <<>> /\ s[Len(s)] \in chars
    THEN rstrip(SubSeq(s, 1, Len(s) - 1), chars) ELSE s

strip(s, chars) == rstrip(lstrip(s, chars), chars)

\* sep.join(parts)
RECURSIVE join(_, _)
join(sep, parts) ==
    IF parts = <<>> THEN <<>>
    ELSE IF Len(parts) = 1 THEN parts[1]
    ELSE parts[1] \o sep \o join(sep, Tail(parts))

\* str(n) for an int n >= 0
RECURSIVE str_int(_)
str_int(n) ==
    IF n < 10 THEN <<DIGITS[n + 1]>>
    ELSE str_int(n \div 10) \o <<DIGITS[(n % 10) + 1]>>

\* the elements of a sequence, as a set
Range(s) == {s[k] : k \in 1..Len(s)}

-----------------------------------------------------------------------------
(* Bank validation *)

ALL_INDIA_STATES == <<
    <<"A","n","d","h","r","a"," ","P","r","a","d","e","s","h">>, <<"A","r","u","n","a","c","h","a","l"," ","P","r","a","d","e","s","h">>, <<"A","s","s","a","m">>, <<"B","i","h","a","r">>, <<"C","h","h","a","t","t","i","s","g","a","r","h">>,
    <<"G","o","a">>, <<"G","u","j","a","r","a","t">>, <<"H","a","r","y","a","n","a">>, <<"H","i","m","a","c","h","a","l"," ","P","r","a","d","e","s","h">>, <<"J","h","a","r","k","h","a","n","d">>, <<"K","a","r","n","a","t","a","k","a">>,
    <<"K","e","r","a","l","a">>, <<"M","a","d","h","y","a"," ","P","r","a","d","e","s","h">>, <<"M","a","h","a","r","a","s","h","t","r","a">>, <<"M","a","n","i","p","u","r">>, <<"M","e","g","h","a","l","a","y","a">>, <<"M","i","z","o","r","a","m">>,
    <<"N","a","g","a","l","a","n","d">>, <<"O","d","i","s","h","a">>, <<"P","u","n","j","a","b">>, <<"R","a","j","a","s","t","h","a","n">>, <<"S","i","k","k","i","m">>, <<"T","a","m","i","l"," ","N","a","d","u">>, <<"T","e","l","a","n","g","a","n","a">>,
    <<"T","r","i","p","u","r","a">>, <<"U","t","t","a","r"," ","P","r","a","d","e","s","h">>, <<"U","t","t","a","r","a","k","h","a","n","d">>, <<"W","e","s","t"," ","B","e","n","g","a","l">>, <<"D","e","l","h","i">>,
    <<"J","a","m","m","u"," ","&"," ","K","a","s","h","m","i","r">>, <<"L","a","d","a","k","h">>, <<"P","u","d","u","c","h","e","r","r","y">>, <<"C","h","a","n","d","i","g","a","r","h">>,
    <<"D","a","d","r","a"," ","a","n","d"," ","N","a","g","a","r"," ","H","a","v","e","l","i">>, <<"L","a","k","s","h","a","d","w","e","e","p">>, <<"A","n","d","a","m","a","n"," ","a","n","d"," ","N","i","c","o","b","a","r"," ","I","s","l","a","n","d","s">> >>

KNOWN_BANK_DOMAINS == {
    <<"h","d","f","c","b","a","n","k",".","c","o","m">>, <<"i","c","i","c","i","b","a","n","k",".","c","o","m">>, <<"a","x","i","s","b","a","n","k",".","c","o","m">>, <<"k","o","t","a","k",".","c","o","m">>,
    <<"y","e","s","b","a","n","k",".","i","n">>, <<"i","n","d","u","s","i","n","d",".","c","o","m">>, <<"i","d","f","c","f","i","r","s","t","b","a","n","k",".","c","o","m">>, <<"b","a","n","d","h","a","n","b","a","n","k",".","c","o","m">>,
    <<"r","b","l","b","a","n","k",".","c","o","m">>, <<"f","e","d","e","r","a","l","b","a","n","k",".","c","o",".","i","n">>, <<"s","o","u","t","h","i","n","d","i","a","n","b","a","n","k",".","c","o","m">>,
    <<"k","a","r","n","a","t","a","k","a","b","a","n","k",".","c","o","m">>, <<"d","c","b","b","a","n","k",".","c","o","m">>, <<"c","s","b",".","c","o",".","i","n">>, <<"c","i","t","y","u","n","i","o","n","b","a","n","k",".","c","o","m">>,
    <<"t","m","b","a","n","k",".","i","n">>, <<"k","v","b",".","c","o",".","i","n">>, <<"d","h","a","n","b","a","n","k",".","c","o","m">>, <<"n","a","i","n","i","t","a","l","b","a","n","k",".","c","o",".","i","n">>,
    <<"a","u","b","a","n","k",".","i","n">>, <<"u","j","j","i","v","a","n","s","f","b",".","i","n">>, <<"e","q","u","i","t","a","s","b","a","n","k",".","c","o","m">>, <<"j","a","n","a","b","a","n","k",".","i","n">>,
    <<"e","s","a","f","b","a","n","k",".","c","o","m">>, <<"s","u","r","y","o","d","a","y","b","a","n","k",".","c","o","m">>, <<"u","t","k","a","r","s","h",".","b","a","n","k">>, <<"c","a","p","i","t","a","l","b","a","n","k",".","c","o",".","i","n">>,
    <<"f","i","n","c","a","r","e","b","a","n","k",".","c","o","m">>, <<"n","e","s","f","b",".","c","o","m">>, <<"i","d","b","i","b","a","n","k",".","i","n">>, <<"j","k","b","a","n","k",".","c","o","m">>,
    <<"s","a","r","a","s","w","a","t","b","a","n","k",".","c","o","m">>, <<"h","s","b","c",".","c","o",".","i","n">>, <<"o","n","l","i","n","e",".","c","i","t","i","b","a","n","k",".","c","o",".","i","n">>, <<"s","c",".","c","o","m">>,
    <<"d","b","s",".","c","o","m">>, <<"d","b",".","c","o","m">>, <<"b","a","r","c","l","a","y","s",".","c","o","m">>, <<"b","o","f","a",".","c","o","m">>, <<"j","p","m","o","r","g","a","n",".","c","o","m">>,
    <<"m","a","s","h","r","e","q","b","a","n","k",".","c","o","m">>, <<"e","m","i","r","a","t","e","s","n","b","d",".","c","o","m">>, <<"o","n","l","i","n","e","s","b","i",".","s","b","i">>, <<"p","n","b","i","n","d","i","a",".","i","n">>,
    <<"b","a","n","k","o","f","b","a","r","o","d","a",".","i","n">>, <<"c","a","n","a","r","a","b","a","n","k",".","c","o","m">>, <<"u","n","i","o","n","b","a","n","k","o","f","i","n","d","i","a",".","c","o",".","i","n">>,
    <<"l","v","b","a","n","k",".","c","o","m">>, <<"p","s","b","i","n","d","i","a",".","c","o","m">> }

BANK_KEYWORDS == {
    <<"b","a","n","k">>, <<"b","a","n","k","i","n","g">>, <<"f","i","n","a","n","c","e">>, <<"f","i","n","a","n","c","i","a","l">>, <<"c","r","e","d","i","t">>, <<"l","e","n","d","i","n","g">>,
    <<"l","o","a","n">>, <<"n","b","f","c">>, <<"c","a","p","i","t","a","l">>, <<"i","n","v","e","s","t">>, <<"s","b","i">>, <<"h","d","f","c">>, <<"i","c","i","c","i">>,
    <<"k","o","t","a","k">>, <<"a","x","i","s">>, <<"i","n","d","u","s","i","n","d">>, <<"f","e","d","e","r","a","l">>, <<"k","a","r","n","a","t","a","k","a">>, <<"s","a","r","a","s","w","a","t">> }

BANK_REJECT_TERMS == {
    <<"s","h","o","p">>, <<"s","t","o","r","e">>, <<"h","o","t","e","l">>, <<"r","e","s","t","a","u","r","a","n","t">>, <<"h","o","s","p","i","t","a","l">>, <<"s","c","h","o","o","l">>,
    <<"c","o","l","l","e","g","e">>, <<"u","n","i","v","e","r","s","i","t","y">>, <<"p","h","a","r","m","a">>, <<"s","t","e","e","l">>, <<"t","e","x","t","i","l","e">>, <<"r","e","a","l","t","y">>,
    <<"c","o","n","s","t","r","u","c","t","i","o","n">>, <<"a","r","c","h","i","t","e","c","t">>, <<"t","r","a","v","e","l">>, <<"t","o","u","r","i","s","m">> }

\* the words check 3 never counts as significant
GENERIC_WORDS == { <<"b","a","n","k">>, <<"s","m","a","l","l">>, <<"f","i","n","a","n","c","e">>, <<"i","n","d","i","a">>, <<"l","i","m","i","t","e","d">>, <<"p","r","i","v","a","t","e">> }

\* domain_root of validate_bank: scheme and www. removed, path cut off
domain_root(domain) ==
    split_first(replace(replace(replace(domain, <<"h","t","t","p","s",":","/","/">>, <<>>),
                                <<"h","t","t","p",":","/","/">>, <<>>),
                        <<"w","w","w",".">>, <<>>),
                "/")

\* "".join(w[0] for w in name_lc.split() if w).lower()
initials(name_lc) ==
    LET ws == split(name_lc)
    IN  lower([k \in 1..Len(ws) |-> ws[k][1]])

\* [w for w in name_lc.split() if len(w) > 4 and w not in {...}]
significant(name_lc) ==
    LET Keep(w) == Len(w) > 4 /\ w \notin GENERIC_WORDS
    IN  SelectSeq(split(name_lc), Keep)

\* the five additive checks, in the order the code evaluates them:
\* <<triggered, weight, label>>
checks(name, url) ==
    LET domain  == lower(url)
        name_lc == lower(name)
        root    == domain_root(domain)
        ini     == initials(name_lc)
        sig     == significant(name_lc)
    IN  << << \E known \in KNOWN_BANK_DOMAINS : Contains(root, known),
              60, <<"k","n","o","w","n"," ","b","a","n","k"," ","d","o","m","a","i","n">> >>,
           << Len(ini) >= 2 /\ Contains(domain, ini),
              30, <<"i","n","i","t","i","a","l","s"," ","m","a","t","c","h"," ","d","o","m","a","i","n">> >>,
           << sig # <<>> /\ \E k \in 1..Len(sig) : Contains(domain, sig[k]),
              25, <<"n","a","m","e"," ","w","o","r","d"," ","i","n"," ","d","o","m","a","i","n">> >>,
           << \E kw \in BANK_KEYWORDS : Contains(domain, kw),
              20, <<"b","a","n","k","i","n","g"," ","k","e","y","w","o","r","d"," ","i","n"," ","U","R","L">> >>,
           << \E kw \in BANK_KEYWORDS : Contains(name_lc, kw),
              15, <<"b","a","n","k","i","n","g"," ","k","e","y","w","o","r","d"," ","i","n"," ","n","a","m","e">> >> >>

RECURSIVE sum_weights(_)
sum_weights(cs) ==
    IF cs = <<>> THEN 0 ELSE cs[1][2] + sum_weights(Tail(cs))

\* the hard reject: a term of the wrong industry anywhere in url.lower()
reject_case_sensitive(url) ==
    \E t \in BANK_REJECT_TERMS : Contains(url, t)

reject(url) ==
    \E t \in BANK_REJECT_TERMS : Contains(lower(url), t)

\* is_valid = score >= 50
passes_above(score) == score > 50

passes(score) == score >= 50

\* validate_bank(name, url) -> (is_valid, score, reason)
validate_bank(name, url) ==
    LET Hit(c)  == c[1]
        hits    == SelectSeq(checks(name, url), Hit)
        score   == sum_weights(hits)
        reasons == [k \in 1..Len(hits) |-> hits[k][3]]
    IN  IF reject(url)
        THEN [is_valid |-> FALSE, score |-> 0,
              reason |-> <<"n","o","n","-","b","a","n","k","i","n","g"," ","d","o","m","a","i","n"," ","d","e","t","e","c","t","e","d">>]
        ELSE [is_valid |-> passes(score), score |-> score,
              reason |-> IF reasons # <<>> THEN join(<<" ","|"," ">>, reasons)
                         ELSE <<"n","o"," ","b","a","n","k","i","n","g"," ","s","i","g","n","a","l","s"," ","f","o","u","n","d">>]

-----------------------------------------------------------------------------
(* Python values.  Every value a record field or a service payload can     *)
(* hold is tagged with its Python type: None, bool, int, str, list, dict.  *)
(* A dict is the sequence of its <<key, value>> pairs in insertion order.  *)

PyNone == [t |-> "None"]
PyBool(b) == [t |-> "bool", v |-> b]
PyInt(n) == [t |-> "int",  v |-> n]
PyStr(s) == [t |-> "str",  v |-> s]
PyList(xs) == [t |-> "list", v |-> xs]
PyDict(kvs) == [t |-> "dict", v |-> kvs]

\* bool(x): Python truthiness
truthy(x) ==
    CASE x.t = "None" -> FALSE
      [] x.t = "bool" -> x.v
      [] x.t = "int"  -> x.v # 0
      [] OTHER        -> x.v # <<>>

\* x or default
or_else(x, default) == IF truthy(x) THEN x ELSE default

\* d.get(key, default) for a dict d
get(d, key, default) ==
    IF \E k \in 1..Len(d.v) : d.v[k][1] = key
    THEN d.v[CHOOSE k \in 1..Len(d.v) : d.v[k][1] = key][2]
    ELSE default

\* the characters json.dumps escapes inside a string
json_escape(c) ==
    CASE c = "\"" -> <<"\\", "\"">>
      [] c = "\\" -> <<"\\", "\\">>
      [] c = "\n" -> <<"\\", "n">>
      [] c = "\t" -> <<"\\", "t">>
      [] c = "\r" -> <<"\\", "r">>
      [] OTHER    -> <<c>>

RECURSIVE concat(_)
concat(parts) == IF parts = <<>> THEN <<>> ELSE parts[1] \o concat(Tail(parts))

\* json.dumps(x) with the default separators
RECURSIVE json_dumps(_)
json_dumps(x) ==
    CASE x.t = "None" -> <<"n","u","l","l">>
      [] x.t = "bool" -> (IF x.v THEN <<"t","r","u","e">> ELSE <<"f","a","l","s","e">>)
      [] x.t = "int"  -> (IF x.v < 0 THEN <<"-">> \o str_int(0 - x.v)
                          ELSE str_int(x.v))
      [] x.t = "str"  ->
            <<"\"">> \o concat([k \in 1..Len(x.v) |-> json_escape(x.v[k])])
                     \o <<"\"">>
      [] x.t = "list" ->
            <<"[">> \o join(<<","," ">>, [k \in 1..Len(x.v) |-> json_dumps(x.v[k])])
                    \o <<"]">>
      [] x.t = "dict" ->
            <<"{">> \o join(<<","," ">>, [k \in 1..Len(x.v) |->
                            json_dumps(PyStr(x.v[k][1])) \o <<":"," ">>
                                \o json_dumps(x.v[k][2])])
                    \o <<"}">>

\* repr(x) of a str: single quotes unless the text holds one and no double quote
repr_str(s) ==
    LET q == IF "'" \in Range(s) /\ "\"" \notin Range(s) THEN "\"" ELSE "'"
        esc(c) == IF c = q \/ c = "\\" THEN <<"\\", c>> ELSE <<c>>
    IN  <<q>> \o concat([k \in 1..Len(s) |-> esc(s[k])]) \o <<q>>

\* repr(x)
RECURSIVE repr(_)
repr(x) ==
    CASE x.t = "None" -> <<"N","o","n","e">>
      [] x.t = "bool" -> (IF x.v THEN <<"T","r","u","e">> ELSE <<"F","a","l","s","e">>)
      [] x.t = "int"  -> (IF x.v < 0 THEN <<"-">> \o str_int(0 - x.v)
                          ELSE str_int(x.v))
      [] x.t = "str"  -> repr_str(x.v)
      [] x.t = "list" ->
            <<"[">> \o join(<<","," ">>, [k \in 1..Len(x.v) |-> repr(x.v[k])])
                    \o <<"]">>
      [] x.t = "dict" ->
            <<"{">> \o join(<<","," ">>, [k \in 1..Len(x.v) |->
                            repr_str(x.v[k][1]) \o <<":"," ">> \o repr(x.v[k][2])])
                    \o <<"}">>

\* f"{x}": a str formats as itself, anything else as its repr
format(x) == IF x.t = "str" THEN x.v ELSE repr(x)

-----------------------------------------------------------------------------
(* Data model *)

\* the fields of Lender in declaration order (the keys of asdict)
LENDER_FIELDS == <<
    "company_name", "company_type", "website", "aum_crores", "product_types",
    "primary_product", "hq_location", "hq_state", "operating_states",
    "pan_india", "established_year", "employee_count", "ticket_size_min",
    "ticket_size_max", "has_subsidiaries", "phone", "email", "data_source",
    "extraction_status", "error" >>

\* the defaults of the dataclass fields
LENDER_DEFAULTS == [
    aum_crores        |-> PyNone,
    product_types     |-> PyStr(<<"[","]">>),
    primary_product   |-> PyStr(<<>>),
    hq_location       |-> PyStr(<<>>),
    hq_state          |-> PyStr(<<>>),
    operating_states  |-> PyStr(<<"[","]">>),
    pan_india         |-> PyBool(FALSE),
    established_year  |-> PyNone,
    employee_count    |-> PyNone,
    ticket_size_min   |-> PyNone,
    ticket_size_max   |-> PyNone,
    has_subsidiaries  |-> PyBool(FALSE),
    phone             |-> PyStr(<<>>),
    email             |-> PyStr(<<>>),
    data_source       |-> PyStr(<<"g","e","m","i","n","i">>),
    extraction_status |-> PyStr(<<"s","u","c","c","e","s","s">>),
    error             |-> PyStr(<<>>) ]

\* asdict(Lender(**given)): the given fields, the others at their defaults
Lender(given) == given @@ LENDER_DEFAULTS

-----------------------------------------------------------------------------
(* Gemini extraction *)

\* extract_with_gemini: what the call returns for a service response.
\* key_set is GEMINI_KEY being non-empty.  A response is
\*   [kind |-> "raised"]                    requests.post raised (unreachable,
\*                                          timeout)
\*   [kind |-> "http", status, candidates, json]
\* where candidates says that resp.json()['candidates'][0]['content']
\* ['parts'][0]['text'] exists, and json is what json.loads makes of that
\* text once the code-fence lines are dropped: [ok |-> FALSE] when it raises
\* JSONDecodeError, [ok |-> TRUE, value |-> v] otherwise.
extract_with_gemini(key_set, resp) ==
    IF ~key_set THEN PyNone
    ELSE IF resp.kind = "raised" THEN PyNone
    ELSE IF resp.status # 200 THEN PyNone
    ELSE IF ~resp.candidates THEN PyNone
    ELSE IF ~resp.json.ok THEN PyNone
    ELSE resp.json.value

-----------------------------------------------------------------------------
(* Build Lender from Gemini output *)

\* resolve_states without the test for the bare string "PAN_INDIA"
resolve_states_list_only(pan_india_flag, data) ==
    LET raw_states == or_else(get(data, <<"o","p","e","r","a","t","i","n","g","_","s","t","a","t","e","s">>, PyNone), PyList(<<>>))
    IN  IF \/ pan_india_flag
           \/ raw_states = PyList(<<PyStr(<<"P","A","N","_","I","N","D","I","A">>)>>)
        THEN [op_states |-> PyList([k \in 1..Len(ALL_INDIA_STATES) |->
                                      PyStr(ALL_INDIA_STATES[k])]),
              is_pan |-> TRUE]
        ELSE [op_states |-> IF raw_states.t = "list" THEN raw_states
                            ELSE PyList(<<>>),
              is_pan |-> FALSE]

\* resolve_states without the isinstance(raw_states, list) test
resolve_states_unchecked(pan_india_flag, data) ==
    LET raw_states == or_else(get(data, <<"o","p","e","r","a","t","i","n","g","_","s","t","a","t","e","s">>, PyNone), PyList(<<>>))
    IN  IF \/ pan_india_flag
           \/ raw_states = PyStr(<<"P","A","N","_","I","N","D","I","A">>)
           \/ raw_states = PyList(<<PyStr(<<"P","A","N","_","I","N","D","I","A">>)>>)
        THEN [op_states |-> PyList([k \in 1..Len(ALL_INDIA_STATES) |->
                                      PyStr(ALL_INDIA_STATES[k])]),
              is_pan |-> TRUE]
        ELSE [op_states |-> raw_states, is_pan |-> FALSE]

\* the operating states and the pan-India flag build_lender settles on
resolve_states(pan_india_flag, data) ==
    LET raw_states == or_else(get(data, <<"o","p","e","r","a","t","i","n","g","_","s","t","a","t","e","s">>, PyNone), PyList(<<>>))
    IN  IF \/ pan_india_flag
           \/ raw_states = PyStr(<<"P","A","N","_","I","N","D","I","A">>)
           \/ raw_states = PyList(<<PyStr(<<"P","A","N","_","I","N","D","I","A">>)>>)
        THEN [op_states |-> PyList([k \in 1..Len(ALL_INDIA_STATES) |->
                                      PyStr(ALL_INDIA_STATES[k])]),
              is_pan |-> TRUE]
        ELSE [op_states |-> IF raw_states.t = "list" THEN raw_states
                            ELSE PyList(<<>>),
              is_pan |-> FALSE]

\* build_lender(name, ctype, website, pan_india_flag, data), data a dict
build_lender(name, ctype, website, pan_india_flag, data) ==
    LET hq_city  == or_else(get(data, <<"h","q","_","c","i","t","y">>, PyNone), PyStr(<<>>))
        hq_state == or_else(get(data, <<"h","q","_","s","t","a","t","e">>, PyNone), PyStr(<<>>))
        hq_loc   == strip(format(hq_city) \o <<","," ">> \o format(hq_state),
                          {",", " "})
        st       == resolve_states(pan_india_flag, data)
    IN  Lender([
            company_name      |-> PyStr(name),
            company_type      |-> PyStr(ctype),
            website           |-> PyStr(website),
            aum_crores        |-> get(data, <<"a","u","m","_","c","r","o","r","e","s">>, PyNone),
            product_types     |-> PyStr(json_dumps(
                or_else(get(data, <<"p","r","o","d","u","c","t","_","t","y","p","e","s">>, PyNone), PyList(<<>>)))),
            primary_product   |-> or_else(get(data, <<"p","r","i","m","a","r","y","_","p","r","o","d","u","c","t">>, PyNone),
                                          PyStr(<<>>)),
            hq_location       |-> PyStr(hq_loc),
            hq_state          |-> hq_state,
            operating_states  |-> PyStr(json_dumps(st.op_states)),
            pan_india         |-> PyBool(st.is_pan),
            established_year  |-> get(data, <<"e","s","t","a","b","l","i","s","h","e","d","_","y","e","a","r">>, PyNone),
            employee_count    |-> get(data, <<"e","m","p","l","o","y","e","e","_","c","o","u","n","t">>, PyNone),
            ticket_size_min   |-> get(data, <<"t","i","c","k","e","t","_","s","i","z","e","_","m","i","n">>, PyNone),
            ticket_size_max   |-> get(data, <<"t","i","c","k","e","t","_","s","i","z","e","_","m","a","x">>, PyNone),
            has_subsidiaries  |-> PyBool(truthy(
                get(data, <<"h","a","s","_","s","u","b","s","i","d","i","a","r","i","e","s">>, PyBool(FALSE)))),
            phone             |-> or_else(get(data, <<"p","h","o","n","e">>, PyNone), PyStr(<<>>)),
            email             |-> or_else(get(data, <<"e","m","a","i","l">>, PyNone), PyStr(<<>>)),
            data_source       |-> PyStr(<<"g","e","m","i","n","i">>),
            extraction_status |-> PyStr(<<"s","u","c","c","e","s","s">>) ])

-----------------------------------------------------------------------------
(* Inputs *)

\* save(results, BANKS_OUT) runs when i % 5 == 0, save(results, NBFCS_OUT)
\* when i % 10 == 0
BANKS_SAVE_EVERY == 5
NBFCS_SAVE_EVERY == 10

\* the longest bank list and the longest NBFC CSV a run is given
MaxBanks == 6
MaxRows == 11

\* banks_list.py: the curated list, in its order
TOP_50_PRIVATE_BANKS == <<
    [company_name |-> <<"H","D","F","C"," ","B","a","n","k">>,
     website |-> <<"h","t","t","p","s",":","/","/","w","w","w",".","h","d","f","c","b","a","n","k",".","c","o","m">>,
     pan_india |-> TRUE],
    [company_name |-> <<"I","C","I","C","I"," ","B","a","n","k">>,
     website |-> <<"h","t","t","p","s",":","/","/","w","w","w",".","i","c","i","c","i","b","a","n","k",".","c","o","m">>,
     pan_india |-> TRUE],
    [company_name |-> <<"A","x","i","s"," ","B","a","n","k">>,
     website |-> <<"h","t","t","p","s",":","/","/","w","w","w",".","a","x","i","s","b","a","n","k",".","c","o","m">>,
     pan_india |-> TRUE],
    [company_name |-> <<"K","o","t","a","k"," ","M","a","h","i","n","d","r","a"," ","B","a","n","k">>,
     website |-> <<"h","t","t","p","s",":","/","/","w","w","w",".","k","o","t","a","k",".","c","o","m">>,
     pan_india |-> TRUE],
    [company_name |-> <<"I","n","d","u","s","I","n","d"," ","B","a","n","k">>,
     website |-> <<"h","t","t","p","s",":","/","/","w","w","w",".","i","n","d","u","s","i","n","d",".","c","o","m">>,
     pan_india |-> TRUE],
    [company_name |-> <<"Y","e","s"," ","B","a","n","k">>,
     website |-> <<"h","t","t","p","s",":","/","/","w","w","w",".","y","e","s","b","a","n","k",".","i","n">>,
     pan_india |-> TRUE],
    [company_name |-> <<"I","D","F","C"," ","F","i","r","s","t"," ","B","a","n","k">>,
     website |-> <<"h","t","t","p","s",":","/","/","w","w","w",".","i","d","f","c","f","i","r","s","t","b","a","n","k",".","c","o","m">>,
     pan_india |-> TRUE],
    [company_name |-> <<"B","a","n","d","h","a","n"," ","B","a","n","k">>,
     website |-> <<"h","t","t","p","s",":","/","/","w","w","w",".","b","a","n","d","h","a","n","b","a","n","k",".","c","o","m">>,
     pan_india |-> TRUE],
    [company_name |-> <<"R","B","L"," ","B","a","n","k">>,
     website |-> <<"h","t","t","p","s",":","/","/","w","w","w",".","r","b","l","b","a","n","k",".","c","o","m">>,
     pan_india |-> TRUE],
    [company_name |-> <<"F","e","d","e","r","a","l"," ","B","a","n","k">>,
     website |-> <<"h","t","t","p","s",":","/","/","w","w","w",".","f","e","d","e","r","a","l","b","a","n","k",".","c","o",".","i","n">>,
     pan_india |-> TRUE],
    [company_name |-> <<"S","o","u","t","h"," ","I","n","d","i","a","n"," ","B","a","n","k">>,
     website |-> <<"h","t","t","p","s",":","/","/","w","w","w",".","s","o","u","t","h","i","n","d","i","a","n","b","a","n","k",".","c","o","m">>,
     pan_india |-> TRUE],
    [company_name |-> <<"K","a","r","n","a","t","a","k","a"," ","B","a","n","k">>,
     website |-> <<"h","t","t","p","s",":","/","/","k","a","r","n","a","t","a","k","a","b","a","n","k",".","c","o","m">>,
     pan_india |-> TRUE],
    [company_name |-> <<"D","C","B"," ","B","a","n","k">>,
     website |-> <<"h","t","t","p","s",":","/","/","w","w","w",".","d","c","b","b","a","n","k",".","c","o","m">>,
     pan_india |-> TRUE],
    [company_name |-> <<"C","S","B"," ","B","a","n","k">>,
     website |-> <<"h","t","t","p","s",":","/","/","w","w","w",".","c","s","b",".","c","o",".","i","n">>,
     pan_india |-> TRUE],
    [company_name |-> <<"C","i","t","y"," ","U","n","i","o","n"," ","B","a","n","k">>,
     website |-> <<"h","t","t","p","s",":","/","/","w","w","w",".","c","i","t","y","u","n","i","o","n","b","a","n","k",".","c","o","m">>,
     pan_india |-> TRUE],
    [company_name |-> <<"T","a","m","i","l","n","a","d"," ","M","e","r","c","a","n","t","i","l","e"," ","B","a","n","k">>,
     website |-> <<"h","t","t","p","s",":","/","/","w","w","w",".","t","m","b","a","n","k",".","i","n">>,
     pan_india |-> FALSE],
    [company_name |-> <<"K","a","r","u","r"," ","V","y","s","y","a"," ","B","a","n","k">>,
     website |-> <<"h","t","t","p","s",":","/","/","w","w","w",".","k","v","b",".","c","o",".","i","n">>,
     pan_india |-> FALSE],
    [company_name |-> <<"L","a","k","s","h","m","i"," ","V","i","l","a","s"," ","B","a","n","k">>,
     website |-> <<"h","t","t","p","s",":","/","/","w","w","w",".","l","v","b","a","n","k",".","c","o","m">>,
     pan_india |-> FALSE],
    [company_name |-> <<"N","a","i","n","i","t","a","l"," ","B","a","n","k">>,
     website |-> <<"h","t","t","p","s",":","/","/","w","w","w",".","n","a","i","n","i","t","a","l","b","a","n","k",".","c","o",".","i","n">>,
     pan_india |-> FALSE],
    [company_name |-> <<"D","h","a","n","l","a","x","m","i"," ","B","a","n","k">>,
     website |-> <<"h","t","t","p","s",":","/","/","w","w","w",".","d","h","a","n","b","a","n","k",".","c","o","m">>,
     pan_india |-> FALSE],
    [company_name |-> <<"A","U"," ","S","m","a","l","l"," ","F","i","n","a","n","c","e"," ","B","a","n","k">>,
     website |-> <<"h","t","t","p","s",":","/","/","w","w","w",".","a","u","b","a","n","k",".","i","n">>,
     pan_india |-> TRUE],
    [company_name |-> <<"U","j","j","i","v","a","n"," ","S","m","a","l","l"," ","F","i","n","a","n","c","e"," ","B","a","n","k">>,
     website |-> <<"h","t","t","p","s",":","/","/","w","w","w",".","u","j","j","i","v","a","n","s","f","b",".","i","n">>,
     pan_india |-> TRUE],
    [company_name |-> <<"E","q","u","i","t","a","s"," ","S","m","a","l","l"," ","F","i","n","a","n","c","e"," ","B","a","n","k">>,
     website |-> <<"h","t","t","p","s",":","/","/","w","w","w",".","e","q","u","i","t","a","s","b","a","n","k",".","c","o","m">>,
     pan_india |-> TRUE],
    [company_name |-> <<"J","a","n","a"," ","S","m","a","l","l"," ","F","i","n","a","n","c","e"," ","B","a","n","k">>,
     website |-> <<"h","t","t","p","s",":","/","/","w","w","w",".","j","a","n","a","b","a","n","k",".","i","n">>,
     pan_india |-> TRUE],
    [company_name |-> <<"E","S","A","F"," ","S","m","a","l","l"," ","F","i","n","a","n","c","e"," ","B","a","n","k">>,
     website |-> <<"h","t","t","p","s",":","/","/","w","w","w",".","e","s","a","f","b","a","n","k",".","c","o","m">>,
     pan_india |-> FALSE],
    [company_name |-> <<"S","u","r","y","o","d","a","y"," ","S","m","a","l","l"," ","F","i","n","a","n","c","e"," ","B","a","n","k">>,
     website |-> <<"h","t","t","p","s",":","/","/","w","w","w",".","s","u","r","y","o","d","a","y","b","a","n","k",".","c","o","m">>,
     pan_india |-> FALSE],
    [company_name |-> <<"U","t","k","a","r","s","h"," ","S","m","a","l","l"," ","F","i","n","a","n","c","e"," ","B","a","n","k">>,
     website |-> <<"h","t","t","p","s",":","/","/","w","w","w",".","u","t","k","a","r","s","h",".","b","a","n","k">>,
     pan_india |-> FALSE],
    [company_name |-> <<"C","a","p","i","t","a","l"," ","S","m","a","l","l"," ","F","i","n","a","n","c","e"," ","B","a","n","k">>,
     website |-> <<"h","t","t","p","s",":","/","/","w","w","w",".","c","a","p","i","t","a","l","b","a","n","k",".","c","o",".","i","n">>,
     pan_india |-> FALSE],
    [company_name |-> <<"F","i","n","c","a","r","e"," ","S","m","a","l","l"," ","F","i","n","a","n","c","e"," ","B","a","n","k">>,
     website |-> <<"h","t","t","p","s",":","/","/","w","w","w",".","f","i","n","c","a","r","e","b","a","n","k",".","c","o","m">>,
     pan_india |-> FALSE],
    [company_name |-> <<"N","o","r","t","h","e","a","s","t"," ","S","m","a","l","l"," ","F","i","n","a","n","c","e"," ","B","a","n","k">>,
     website |-> <<"h","t","t","p","s",":","/","/","w","w","w",".","n","e","s","f","b",".","c","o","m">>,
     pan_india |-> FALSE],
    [company_name |-> <<"I","D","B","I"," ","B","a","n","k">>,
     website |-> <<"h","t","t","p","s",":","/","/","w","w","w",".","i","d","b","i","b","a","n","k",".","i","n">>,
     pan_india |-> TRUE],
    [company_name |-> <<"J","a","m","m","u"," ","&"," ","K","a","s","h","m","i","r"," ","B","a","n","k">>,
     website |-> <<"h","t","t","p","s",":","/","/","w","w","w",".","j","k","b","a","n","k",".","c","o","m">>,
     pan_india |-> FALSE],
    [company_name |-> <<"C","a","t","h","o","l","i","c"," ","S","y","r","i","a","n"," ","B","a","n","k">>,
     website |-> <<"h","t","t","p","s",":","/","/","w","w","w",".","c","s","b",".","c","o",".","i","n">>,
     pan_india |-> FALSE],
    [company_name |-> <<"R","a","t","n","a","k","a","r"," ","B","a","n","k">>,
     website |-> <<"h","t","t","p","s",":","/","/","w","w","w",".","r","b","l","b","a","n","k",".","c","o","m">>,
     pan_india |-> TRUE],
    [company_name |-> <<"S","a","r","a","s","w","a","t"," ","B","a","n","k">>,
     website |-> <<"h","t","t","p","s",":","/","/","w","w","w",".","s","a","r","a","s","w","a","t","b","a","n","k",".","c","o","m">>,
     pan_india |-> FALSE],
    [company_name |-> <<"H","S","B","C"," ","I","n","d","i","a">>,
     website |-> <<"h","t","t","p","s",":","/","/","w","w","w",".","h","s","b","c",".","c","o",".","i","n">>,
     pan_india |-> TRUE],
    [company_name |-> <<"C","i","t","i","b","a","n","k"," ","I","n","d","i","a">>,
     website |-> <<"h","t","t","p","s",":","/","/","w","w","w",".","o","n","l","i","n","e",".","c","i","t","i","b","a","n","k",".","c","o",".","i","n">>,
     pan_india |-> TRUE],
    [company_name |-> <<"S","t","a","n","d","a","r","d"," ","C","h","a","r","t","e","r","e","d"," ","I","n","d","i","a">>,
     website |-> <<"h","t","t","p","s",":","/","/","w","w","w",".","s","c",".","c","o","m","/","i","n">>,
     pan_india |-> TRUE],
    [company_name |-> <<"D","B","S"," ","B","a","n","k"," ","I","n","d","i","a">>,
     website |-> <<"h","t","t","p","s",":","/","/","w","w","w",".","d","b","s",".","c","o","m","/","i","n">>,
     pan_india |-> TRUE],
    [company_name |-> <<"D","e","u","t","s","c","h","e"," ","B","a","n","k"," ","I","n","d","i","a">>,
     website |-> <<"h","t","t","p","s",":","/","/","w","w","w",".","d","b",".","c","o","m","/","i","n","d","i","a">>,
     pan_india |-> TRUE],
    [company_name |-> <<"B","a","r","c","l","a","y","s"," ","I","n","d","i","a">>,
     website |-> <<"h","t","t","p","s",":","/","/","h","o","m","e",".","b","a","r","c","l","a","y","s","/","i","n","d","i","a">>,
     pan_india |-> TRUE],
    [company_name |-> <<"B","a","n","k"," ","o","f"," ","A","m","e","r","i","c","a"," ","I","n","d","i","a">>,
     website |-> <<"h","t","t","p","s",":","/","/","b","u","s","i","n","e","s","s",".","b","o","f","a",".","c","o","m","/","e","n","-","u","s","/","c","o","n","t","e","n","t","/","i","n","d","i","a",".","h","t","m","l">>,
     pan_india |-> TRUE],
    [company_name |-> <<"J","P"," ","M","o","r","g","a","n"," ","I","n","d","i","a">>,
     website |-> <<"h","t","t","p","s",":","/","/","w","w","w",".","j","p","m","o","r","g","a","n",".","c","o","m","/","I","N","/","e","n","/","a","b","o","u","t","-","u","s">>,
     pan_india |-> TRUE],
    [company_name |-> <<"M","a","s","h","r","e","q"," ","B","a","n","k"," ","I","n","d","i","a">>,
     website |-> <<"h","t","t","p","s",":","/","/","w","w","w",".","m","a","s","h","r","e","q","b","a","n","k",".","c","o","m">>,
     pan_india |-> FALSE],
    [company_name |-> <<"E","m","i","r","a","t","e","s"," ","N","B","D"," ","I","n","d","i","a">>,
     website |-> <<"h","t","t","p","s",":","/","/","w","w","w",".","e","m","i","r","a","t","e","s","n","b","d",".","c","o","m","/","e","n","/","i","n","d","i","a">>,
     pan_india |-> FALSE],
    [company_name |-> <<"S","t","a","t","e"," ","B","a","n","k"," ","o","f"," ","I","n","d","i","a">>,
     website |-> <<"h","t","t","p","s",":","/","/","w","w","w",".","o","n","l","i","n","e","s","b","i",".","s","b","i">>,
     pan_india |-> TRUE],
    [company_name |-> <<"P","u","n","j","a","b"," ","N","a","t","i","o","n","a","l"," ","B","a","n","k">>,
     website |-> <<"h","t","t","p","s",":","/","/","w","w","w",".","p","n","b","i","n","d","i","a",".","i","n">>,
     pan_india |-> TRUE],
    [company_name |-> <<"B","a","n","k"," ","o","f"," ","B","a","r","o","d","a">>,
     website |-> <<"h","t","t","p","s",":","/","/","w","w","w",".","b","a","n","k","o","f","b","a","r","o","d","a",".","i","n">>,
     pan_india |-> TRUE],
    [company_name |-> <<"C","a","n","a","r","a"," ","B","a","n","k">>,
     website |-> <<"h","t","t","p","s",":","/","/","w","w","w",".","c","a","n","a","r","a","b","a","n","k",".","c","o","m">>,
     pan_india |-> TRUE],
    [company_name |-> <<"U","n","i","o","n"," ","B","a","n","k"," ","o","f"," ","I","n","d","i","a">>,
     website |-> <<"h","t","t","p","s",":","/","/","w","w","w",".","u","n","i","o","n","b","a","n","k","o","f","i","n","d","i","a",".","c","o",".","i","n">>,
     pan_india |-> TRUE] >>

\* entries of TOP_50_PRIVATE_BANKS the bank list of a run is drawn from:
\* one that validate_bank accepts and one that it rejects
BANK_ENTRIES == {
    [company_name |-> <<"I","C","I","C","I"," ","B","a","n","k">>, website |-> <<"h","t","t","p","s",":","/","/","w","w","w",".","i","c","i","c","i","b","a","n","k",".","c","o","m">>,
     pan_india |-> TRUE],
    [company_name |-> <<"B","a","r","c","l","a","y","s"," ","I","n","d","i","a">>, website |-> <<"h","t","t","p","s",":","/","/","h","o","m","e",".","b","a","r","c","l","a","y","s","/","i","n","d","i","a">>,
     pan_india |-> TRUE] }

\* rows of the NBFC CSV as csv.DictReader yields them
CSV_ROWS == {
    PyDict(<< <<<<"c","o","m","p","a","n","y","_","n","a","m","e">>, PyStr(<<"L","o","c","a","l"," ","N","B","F","C">>)>>,
              <<<<"w","e","b","s","i","t","e">>, PyStr(<<"h","t","t","p","s",":","/","/","l","o","c","a","l","n","b","f","c",".","i","n">>)>> >>),
    PyDict(<< <<<<"c","o","m","p","a","n","y","_","n","a","m","e">>, PyStr(<<" ","L","o","c","a","l"," ","N","B","F","C"," ">>)>>,
              <<<<"w","e","b","s","i","t","e">>, PyStr(<<>>)>>,
              <<<<"v","a","l","i","d","a","t","e","d","_","u","r","l">>, PyStr(<<" ","h","t","t","p","s",":","/","/","l","o","c","a","l","n","b","f","c",".","i","n">>)>> >>),
    PyDict(<< <<<<"c","o","m","p","a","n","y","_","n","a","m","e">>, PyStr(<<" "," ">>)>>,
              <<<<"w","e","b","s","i","t","e">>, PyStr(<<"h","t","t","p","s",":","/","/","l","o","c","a","l","n","b","f","c",".","i","n">>)>> >>),
    PyDict(<< <<<<"w","e","b","s","i","t","e">>, PyStr(<<"h","t","t","p","s",":","/","/","l","o","c","a","l","n","b","f","c",".","i","n">>)>> >>),
    PyDict(<< <<<<"c","o","m","p","a","n","y","_","n","a","m","e">>, PyStr(<<"L","o","c","a","l"," ","N","B","F","C">>)>>,
              <<<<"w","e","b","s","i","t","e">>, PyStr(<<>>)>>,
              <<<<"r","a","w","_","u","r","l">>, PyStr(<<" ">>)>> >>),
    PyDict(<< <<<<"c","o","m","p","a","n","y","_","n","a","m","e">>, PyStr(<<"L","o","c","a","l"," ","N","B","F","C">>)>> >>) }

\* a payload of the shape the prompt asks for
PAYLOAD == PyDict(<<
    <<<<"a","u","m","_","c","r","o","r","e","s">>, PyInt(250)>>,
    <<<<"p","r","o","d","u","c","t","_","t","y","p","e","s">>, PyList(<<PyStr(<<"G","o","l","d"," ","L","o","a","n">>)>>)>>,
    <<<<"p","r","i","m","a","r","y","_","p","r","o","d","u","c","t">>, PyStr(<<"G","o","l","d"," ","L","o","a","n">>)>>,
    <<<<"h","q","_","c","i","t","y">>, PyStr(<<"P","u","n","e">>)>>,
    <<<<"h","q","_","s","t","a","t","e">>, PyStr(<<"M","a","h","a","r","a","s","h","t","r","a">>)>>,
    <<<<"o","p","e","r","a","t","i","n","g","_","s","t","a","t","e","s">>, PyList(<<PyStr(<<"M","a","h","a","r","a","s","h","t","r","a">>), PyStr(<<"G","u","j","a","r","a","t">>)>>)>>,
    <<<<"e","s","t","a","b","l","i","s","h","e","d","_","y","e","a","r">>, PyNone>>,
    <<<<"h","a","s","_","s","u","b","s","i","d","i","a","r","i","e","s">>, PyBool(FALSE)>> >>)

Http(status, candidates, json) ==
    [kind |-> "http", status |-> status, candidates |-> candidates, json |-> json]

Parsed(value) == [ok |-> TRUE, value |-> value]
Unparsable == [ok |-> FALSE]

\* what the extraction service can answer to one request
RESPONSES == {
    [kind |-> "raised"],
    Http(429, FALSE, Unparsable),
    Http(200, FALSE, Unparsable),
    Http(200, TRUE, Unparsable),
    Http(200, TRUE, Parsed(PyNone)),
    Http(200, TRUE, Parsed(PyDict(<<>>))),
    Http(200, TRUE, Parsed(PyList(<<PyStr(<<"P","A","N","_","I","N","D","I","A">>)>>))),
    Http(200, TRUE, Parsed(PyStr(<<"u","n","k","n","o","w","n">>))),
    Http(200, TRUE, Parsed(PyInt(7))),
    Http(200, TRUE, Parsed(PAYLOAD)) }

-----------------------------------------------------------------------------
(* The runs.  A run is run_banks or run_nbfcs; mode 'all' calls the one    *)
(* after the other, each with its own results list and its own output     *)
(* file.  The bank list and the CSV are read one entry per iteration.     *)

NO_FILE == [exists |-> FALSE, header |-> <<>>, rows |-> <<>>]
EMPTY_FILE == [exists |-> TRUE, header |-> <<>>, rows |-> <<>>]
NO_VALIDATION == [is_valid |-> FALSE, score |-> -1, reason |-> <<>>]
\* rested: no extraction-service call has been made since the last
\* time.sleep(2) (or since the run began)
\* cur is the institution of the iteration in progress (name, ctype, website,
\* pan are bound anew by every iteration); between iterations it is
\* NO_INSTITUTION
NO_INSTITUTION == [name |-> <<>>, ctype |-> <<>>, website |-> <<>>, pan |-> FALSE]
\* ok = fail = skipped = 0 (run_banks), ok = fail = skip = 0 (run_nbfcs)
NO_COUNTS == [ok |-> 0, fail |-> 0, skip |-> 0]
NO_CALL == [fn |-> "none"]

Init ==
    /\ \/ mode = "nbfcs" /\ total \in 0..MaxRows
       \/ mode = "banks" /\ total \in 0..MaxBanks
    /\ i = 0
    /\ pc = "for"
    /\ cur = NO_INSTITUTION
    /\ val = NO_VALIDATION
    /\ results = <<>>
    /\ counts = NO_COUNTS
    /\ store = NO_FILE
    /\ flushed = NO_FILE
    /\ rested = TRUE
    /\ call = NO_CALL

\* the company type run_banks derives from the name
company_type(name) ==
    IF Contains(name, <<"S","m","a","l","l"," ","F","i","n","a","n","c","e">>) THEN <<"S","m","a","l","l"," ","F","i","n","a","n","c","e"," ","B","a","n","k">>
    ELSE IF \E k \in {<<"H","S","B","C">>, <<"C","i","t","i">>, <<"S","t","a","n","d","a","r","d"," ","C","h","a","r","t","e","r","e","d">>, <<"D","B","S">>,
                      <<"D","e","u","t","s","c","h","e">>, <<"B","a","r","c","l","a","y","s">>, <<"B","a","n","k"," ","o","f"," ","A","m","e","r","i","c","a">>,
                      <<"J","P"," ","M","o","r","g","a","n">>, <<"M","a","s","h","r","e","q">>, <<"E","m","i","r","a","t","e","s">>} : Contains(name, k)
         THEN <<"F","o","r","e","i","g","n"," ","B","a","n","k">>
    ELSE IF \E k \in {<<"S","t","a","t","e"," ","B","a","n","k">>, <<"P","u","n","j","a","b"," ","N","a","t","i","o","n","a","l">>, <<"B","a","n","k"," ","o","f"," ","B","a","r","o","d","a">>,
                      <<"C","a","n","a","r","a">>, <<"U","n","i","o","n"," ","B","a","n","k">>} : Contains(name, k)
         THEN <<"P","S","U"," ","B","a","n","k">>
    ELSE <<"P","r","i","v","a","t","e"," ","B","a","n","k">>

\* the failed record run_banks appends for a rejected URL
rejected_record(inst, v) ==
    Lender([company_name |-> PyStr(inst.name), company_type |-> PyStr(inst.ctype),
            website |-> PyStr(inst.website), pan_india |-> PyBool(inst.pan),
            extraction_status |-> PyStr(<<"f","a","i","l","e","d">>),
            error |-> PyStr(<<"B","a","n","k"," ","v","a","l","i","d","a","t","i","o","n"," ","f","a","i","l","e","d"," ","(">> \o str_int(v.score)
                            \o <<"/","1","0","0",")",":"," ">> \o v.reason)])

\* the failed record run_banks appends when the service gave no data
no_data_record_bank(inst) ==
    Lender([company_name |-> PyStr(inst.name), company_type |-> PyStr(inst.ctype),
            website |-> PyStr(inst.website), pan_india |-> PyBool(inst.pan),
            extraction_status |-> PyStr(<<"f","a","i","l","e","d">>),
            error |-> PyStr(<<"G","e","m","i","n","i"," ","r","e","t","u","r","n","e","d"," ","n","o"," ","d","a","t","a">>)])

\* the failed record run_nbfcs appends when the service gave no data
no_data_record_nbfc(inst) ==
    Lender([company_name |-> PyStr(inst.name), company_type |-> PyStr(<<"N","B","F","C">>),
            website |-> PyStr(inst.website),
            extraction_status |-> PyStr(<<"f","a","i","l","e","d">>),
            error |-> PyStr(<<"G","e","m","i","n","i"," ","r","e","t","u","r","n","e","d"," ","n","o"," ","d","a","t","a">>)])

\* the save condition at the end of the loop body
save_due(every) == i % every = 0 \/ i = total

\* for i, bank in enumerate(TOP_50_PRIVATE_BANKS, 1): the next bank
BankNext ==
    /\ mode = "banks" /\ pc = "for" /\ i < total
    /\ \E bank \in BANK_ENTRIES :
          cur' = [name |-> bank.company_name,
                  ctype |-> company_type(bank.company_name),
                  website |-> bank.website,
                  pan |-> bank.pan_india]
    /\ i' = i + 1
    /\ val' = NO_VALIDATION
    /\ pc' = "validate"
    /\ UNCHANGED <<mode, total, results, store, flushed, call, counts, rested>>

\* BankValidate with the validation result not acted upon
BankValidateNoGate ==
    /\ mode = "banks" /\ pc = "validate"
    /\ val' = validate_bank(cur.name, cur.website)
    /\ results' = results
    /\ counts' = counts
    /\ cur' = cur
    /\ pc' = "extract"
    /\ UNCHANGED <<mode, total, i, store, flushed, call, rested>>

\* run_banks: validation; a rejected bank gets a failed record and the loop
\* continues with the next bank
BankValidate ==
    /\ mode = "banks" /\ pc = "validate"
    /\ val' = validate_bank(cur.name, cur.website)
    /\ IF ~val'.is_valid
       THEN /\ results' = Append(results, rejected_record(cur, val'))
            /\ counts' = [counts EXCEPT !.skip = @ + 1]
            /\ cur' = NO_INSTITUTION
            /\ pc' = "for"
       ELSE /\ results' = results
            /\ counts' = counts
            /\ cur' = cur
            /\ pc' = "extract"
    /\ UNCHANGED <<mode, total, i, store, flushed, call, rested>>

\* run_banks: extraction, the record appended for its outcome, and the save
\* condition.  build_lender calls data.get: a truthy result that is no dict
\* raises AttributeError, which nothing catches.
BankExtract ==
    /\ mode = "banks" /\ pc = "extract"
    /\ \E resp \in RESPONSES :
          LET data == extract_with_gemini(TRUE, resp)
          IN  IF ~truthy(data)
              THEN /\ results' = Append(results, no_data_record_bank(cur))
                   /\ counts' = [counts EXCEPT !.fail = @ + 1]
                   /\ pc' = IF save_due(BANKS_SAVE_EVERY) THEN "save" ELSE "sleep"
              ELSE IF data.t = "dict"
              THEN /\ results' = Append(results,
                          build_lender(cur.name, cur.ctype, cur.website, cur.pan, data))
                   /\ counts' = [counts EXCEPT !.ok = @ + 1]
                   /\ pc' = IF save_due(BANKS_SAVE_EVERY) THEN "save" ELSE "sleep"
              ELSE /\ results' = results
                   /\ counts' = counts
                   /\ pc' = "crashed"
    /\ rested' = FALSE
    /\ UNCHANGED <<mode, total, i, cur, val, store, flushed, call>>

\* NbfcNext with the skipped row falling through to the save condition
NbfcNextSkipReachesSave ==
    /\ mode = "nbfcs" /\ pc = "for" /\ i < total
    /\ \E row \in CSV_ROWS :
          LET name == strip(get(row, <<"c","o","m","p","a","n","y","_","n","a","m","e">>, PyStr(<<>>)).v, WHITESPACE)
              website == strip(
                  or_else(get(row, <<"w","e","b","s","i","t","e">>, PyNone),
                      or_else(get(row, <<"v","a","l","i","d","a","t","e","d","_","u","r","l">>, PyNone),
                          get(row, <<"r","a","w","_","u","r","l">>, PyStr(<<>>)))).v, WHITESPACE)
          IN  IF name = <<>> \/ website = <<>>
              THEN /\ counts' = [counts EXCEPT !.skip = @ + 1]
                   /\ cur' = NO_INSTITUTION
                   /\ pc' = IF (i + 1) % NBFCS_SAVE_EVERY = 0 \/ i + 1 = total
                            THEN "save" ELSE "sleep"
              ELSE /\ counts' = counts
                   /\ cur' = [name |-> name, ctype |-> <<"N","B","F","C">>,
                              website |-> website, pan |-> FALSE]
                   /\ pc' = "extract"
    /\ i' = i + 1
    /\ UNCHANGED <<mode, total, val, results, store, flushed, call, rested>>

\* for i, row in enumerate(all_rows, 1): the next row, skipped when it has
\* no company name or no URL
NbfcNext ==
    /\ mode = "nbfcs" /\ pc = "for" /\ i < total
    /\ \E row \in CSV_ROWS :
          LET name == strip(get(row, <<"c","o","m","p","a","n","y","_","n","a","m","e">>, PyStr(<<>>)).v, WHITESPACE)
              website == strip(
                  or_else(get(row, <<"w","e","b","s","i","t","e">>, PyNone),
                      or_else(get(row, <<"v","a","l","i","d","a","t","e","d","_","u","r","l">>, PyNone),
                          get(row, <<"r","a","w","_","u","r","l">>, PyStr(<<>>)))).v, WHITESPACE)
          IN  IF name = <<>> \/ website = <<>>
              THEN /\ counts' = [counts EXCEPT !.skip = @ + 1]
                   /\ cur' = NO_INSTITUTION
                   /\ pc' = "for"
              ELSE /\ counts' = counts
                   /\ cur' = [name |-> name, ctype |-> <<"N","B","F","C">>,
                              website |-> website, pan |-> FALSE]
                   /\ pc' = "extract"
    /\ i' = i + 1
    /\ UNCHANGED <<mode, total, val, results, store, flushed, call, rested>>

\* NbfcExtract with the failed record forgotten
NbfcExtractNoFailRecord ==
    /\ mode = "nbfcs" /\ pc = "extract"
    /\ \E resp \in RESPONSES :
          LET data == extract_with_gemini(TRUE, resp)
          IN  IF ~truthy(data)
              THEN /\ results' = results
                   /\ counts' = [counts EXCEPT !.fail = @ + 1]
                   /\ cur' = NO_INSTITUTION
                   /\ pc' = "for"
              ELSE IF data.t = "dict"
              THEN /\ results' = Append(results,
                          build_lender(cur.name, <<"N","B","F","C">>, cur.website, FALSE, data))
                   /\ counts' = [counts EXCEPT !.ok = @ + 1]
                   /\ cur' = cur
                   /\ pc' = IF save_due(NBFCS_SAVE_EVERY) THEN "save" ELSE "sleep"
              ELSE /\ results' = results
                   /\ counts' = counts
                   /\ cur' = cur
                   /\ pc' = "crashed"
    /\ rested' = FALSE
    /\ UNCHANGED <<mode, total, i, val, store, flushed, call>>

\* run_nbfcs: extraction; a failed one appends its record and continues with
\* the next row, a successful one appends and reaches the save condition
NbfcExtract ==
    /\ mode = "nbfcs" /\ pc = "extract"
    /\ \E resp \in RESPONSES :
          LET data == extract_with_gemini(TRUE, resp)
          IN  IF ~truthy(data)
              THEN /\ results' = Append(results, no_data_record_nbfc(cur))
                   /\ counts' = [counts EXCEPT !.fail = @ + 1]
                   /\ cur' = NO_INSTITUTION
                   /\ pc' = "for"
              ELSE IF data.t = "dict"
              THEN /\ results' = Append(results,
                          build_lender(cur.name, <<"N","B","F","C">>, cur.website, FALSE, data))
                   /\ counts' = [counts EXCEPT !.ok = @ + 1]
                   /\ cur' = cur
                   /\ pc' = IF save_due(NBFCS_SAVE_EVERY) THEN "save" ELSE "sleep"
              ELSE /\ results' = results
                   /\ counts' = counts
                   /\ cur' = cur
                   /\ pc' = "crashed"
    /\ rested' = FALSE
    /\ UNCHANGED <<mode, total, i, val, store, flushed, call>>

\* save: open(path, 'w') truncates the file; results[0] of an empty list
\* raises IndexError
SaveOpen ==
    /\ pc = "save"
    /\ store' = EMPTY_FILE
    /\ pc' = IF results = <<>> THEN "crashed" ELSE "save_write"
    /\ UNCHANGED <<mode, total, i, cur, val, results, flushed, call, counts, rested>>

\* written with writer.writerow(rows[-1]) in place of writer.writerows(rows)
written_last_row(rows) ==
    [exists |-> TRUE,
     header |-> SelectSeq(LENDER_FIELDS, LAMBDA f : f \in DOMAIN rows[1]),
     rows |-> <<rows[Len(rows)]>>]

\* the file save leaves once it has written the header and rows
written(rows) ==
    [exists |-> TRUE,
     header |-> SelectSeq(LENDER_FIELDS, LAMBDA f : f \in DOMAIN rows[1]),
     rows |-> rows]

\* save: writeheader, writerows, and the file is closed
SaveWrite ==
    /\ pc = "save_write"
    /\ store' = written(results)
    /\ flushed' = store'
    /\ pc' = "sleep"
    /\ UNCHANGED <<mode, total, i, cur, val, results, call, counts, rested>>

\* time.sleep(2), then the next iteration
Sleep ==
    /\ pc = "sleep"
    /\ pc' = "for"
    /\ cur' = NO_INSTITUTION
    /\ rested' = TRUE
    /\ UNCHANGED <<mode, total, i, val, results, store, flushed, call, counts>>

\* the loop is exhausted: the summary is printed and the run returns
LoopEnd ==
    /\ pc = "for" /\ i = total
    /\ pc' = "done"
    /\ UNCHANGED <<mode, total, i, cur, val, results, store, flushed, call, counts, rested>>

RUNNING == {"for", "validate", "extract", "save", "save_write", "sleep"}

\* the files an interrupted save can leave: nothing written yet, or the
\* header and the first k rows
partial_files(rows) ==
    {EMPTY_FILE} \cup
    {[written(rows) EXCEPT !.rows = SubSeq(rows, 1, k)] : k \in 0..Len(rows)}

\* Ctrl-C: KeyboardInterrupt is raised wherever the run stands; no handler
\* catches it (except Exception does not), so the run ends there.  While
\* save is writing, the with block closes the file on what was written.
Interrupt ==
    /\ pc \in RUNNING
    /\ pc' = "interrupted"
    /\ IF pc = "save_write"
       THEN store' \in partial_files(results)
       ELSE store' = store
    /\ UNCHANGED <<mode, total, i, cur, val, results, flushed, call, counts, rested>>

Next ==
    \/ BankNext
    \/ BankValidate
    \/ BankExtract
    \/ NbfcNext
    \/ NbfcExtract
    \/ SaveOpen
    \/ SaveWrite
    \/ Sleep
    \/ LoopEnd
    \/ Interrupt

Spec == Init /\ [][Next]_vars

-----------------------------------------------------------------------------
(* validate_bank and build_lender on their own: one call on arguments      *)
(* drawn from the sets below                                               *)

VALIDATE_NAMES == {
    <<"H","D","F","C"," ","B","a","n","k">>, <<"I","C","I","C","I"," ","B","a","n","k">>, <<"B","a","r","c","l","a","y","s"," ","I","n","d","i","a">>, <<"A","U"," ","S","m","a","l","l"," ","F","i","n","a","n","c","e"," ","B","a","n","k">>,
    <<"S","t","a","t","e"," ","B","a","n","k"," ","o","f"," ","I","n","d","i","a">>, <<"F","a","k","e"," ","B","a","n","k">>, <<"A","b"," ","C","d">>, <<"H","o","t","e","l"," ","L","e","e","l","a">> }

VALIDATE_URLS == {
    <<"h","t","t","p","s",":","/","/","w","w","w",".","h","d","f","c","b","a","n","k",".","c","o","m">>, <<"h","t","t","p","s",":","/","/","w","w","w",".","i","c","i","c","i","b","a","n","k",".","c","o","m">>,
    <<"h","t","t","p","s",":","/","/","h","o","m","e",".","b","a","r","c","l","a","y","s","/","i","n","d","i","a">>, <<"h","t","t","p","s",":","/","/","w","w","w",".","a","u","b","a","n","k",".","i","n">>,
    <<"h","t","t","p","s",":","/","/","a","c","b","a","n","k",".","i","n">>, <<"h","t","t","p",":","/","/","e","x","a","m","p","l","e",".","o","r","g">>,
    <<"h","t","t","p","s",":","/","/","w","w","w",".","h","o","t","e","l","p","a","r","a","d","i","s","e",".","c","o","m">>, <<"h","t","t","p","s",":","/","/","w","w","w",".","H","D","F","C","B","a","n","k",".","c","o","m","/","H","o","t","e","l","-","L","o","a","n","s">>,
    <<"h","t","t","p","s",":","/","/","w","w","w",".","i","c","i","c","i","b","a","n","k",".","c","o","m","/","t","r","a","v","e","l">> }

\* values of operating_states a payload can carry; ABSENT is the key missing
ABSENT == [t |-> "absent"]

BUILD_STATES == {
    ABSENT,
    PyNone,
    PyStr(<<"P","A","N","_","I","N","D","I","A">>),
    PyList(<<PyStr(<<"P","A","N","_","I","N","D","I","A">>)>>),
    PyList(<<PyStr(<<"P","A","N","_","I","N","D","I","A">>), PyStr(<<"G","o","a">>)>>),
    PyStr(<<"G","o","a">>),
    PyStr(<<>>),
    PyList(<<>>),
    PyList(<<PyStr(<<"M","a","h","a","r","a","s","h","t","r","a">>), PyStr(<<"G","u","j","a","r","a","t">>)>>),
    PyList(<<PyStr(<<"G","u","j","a","r","a","t">>), PyStr(<<"M","a","h","a","r","a","s","h","t","r","a">>)>>),
    PyList(<<PyStr(<<"G","o","a">>)>>),
    PyInt(5),
    PyBool(TRUE),
    PyDict(<< <<<<"s","t","a","t","e">>, PyStr(<<"G","o","a">>)>> >>) }

\* the other fields of the payloads build_lender is called on
BUILD_FIELDS == {
    <<>>,
    << <<<<"p","r","o","d","u","c","t","_","t","y","p","e","s">>, PyList(<<>>)>> >>,
    << <<<<"h","q","_","c","i","t","y">>, PyStr(<<"P","u","n","e">>)>>, <<<<"h","q","_","s","t","a","t","e">>, PyStr(<<"M","a","h","a","r","a","s","h","t","r","a">>)>>,
       <<<<"a","u","m","_","c","r","o","r","e","s">>, PyInt(250)>>, <<<<"h","a","s","_","s","u","b","s","i","d","i","a","r","i","e","s">>, PyBool(TRUE)>> >>,
    << <<<<"h","q","_","c","i","t","y">>, PyNone>>, <<<<"h","q","_","s","t","a","t","e">>, PyStr(<<"G","o","a">>)>>,
       <<<<"p","r","o","d","u","c","t","_","t","y","p","e","s">>, PyList(<<PyStr(<<"G","o","l","d"," ","L","o","a","n">>)>>)>>,
       <<<<"p","h","o","n","e">>, PyNone>>, <<<<"e","m","a","i","l">>, PyStr(<<"c","a","r","e","@","n","b","f","c",".","i","n">>)>> >> }

payload(fields, states) ==
    PyDict(IF states = ABSENT THEN fields
           ELSE fields \o << <<<<"o","p","e","r","a","t","i","n","g","_","s","t","a","t","e","s">>, states>> >>)

InitValidate ==
    /\ mode = "none" /\ total = 0 /\ i = 0 /\ pc = "call"
    /\ cur = NO_INSTITUTION /\ val = NO_VALIDATION
    /\ results = <<>> /\ counts = NO_COUNTS
    /\ store = NO_FILE /\ flushed = NO_FILE /\ rested = TRUE
    /\ \E name \in VALIDATE_NAMES, url \in VALIDATE_URLS :
          call = [fn |-> "validate_bank", name |-> name, url |-> url,
                  done |-> FALSE, ret |-> NO_VALIDATION]

\* is_valid, score, reason = validate_bank(name, website)
CallValidateBank ==
    /\ call.fn = "validate_bank" /\ ~call.done
    /\ call' = [call EXCEPT !.done = TRUE,
                            !.ret = validate_bank(call.name, call.url)]
    /\ UNCHANGED <<mode, total, i, pc, cur, val, results, counts, store, flushed, rested>>

SpecValidate == InitValidate /\ [][CallValidateBank]_vars

\* validate_bank called as run_banks calls it, on one entry of the
\* curated list
InitCurated ==
    /\ mode = "none" /\ total = 0 /\ i = 0 /\ pc = "call"
    /\ cur = NO_INSTITUTION /\ val = NO_VALIDATION
    /\ results = <<>> /\ counts = NO_COUNTS
    /\ store = NO_FILE /\ flushed = NO_FILE /\ rested = TRUE
    /\ \E k \in 1..Len(TOP_50_PRIVATE_BANKS) :
          call = [fn |-> "validate_bank",
                  name |-> TOP_50_PRIVATE_BANKS[k].company_name,
                  url |-> TOP_50_PRIVATE_BANKS[k].website,
                  done |-> FALSE, ret |-> NO_VALIDATION]

SpecCurated == InitCurated /\ [][CallValidateBank]_vars

InitBuild ==
    /\ mode = "none" /\ total = 0 /\ i = 0 /\ pc = "call"
    /\ cur = NO_INSTITUTION /\ val = NO_VALIDATION
    /\ results = <<>> /\ counts = NO_COUNTS
    /\ store = NO_FILE /\ flushed = NO_FILE /\ rested = TRUE
    /\ \E pan \in BOOLEAN, fields \in BUILD_FIELDS, states \in BUILD_STATES :
          call = [fn |-> "build_lender", name |-> <<"L","o","c","a","l"," ","N","B","F","C">>,
                  ctype |-> <<"N","B","F","C">>, website |-> <<"h","t","t","p","s",":","/","/","l","o","c","a","l","n","b","f","c",".","i","n">>,
                  pan |-> pan, data |-> payload(fields, states),
                  done |-> FALSE, ret |-> PyNone]

\* build_lender(name, ctype, website, pan, data)
CallBuildLender ==
    /\ call.fn = "build_lender" /\ ~call.done
    /\ call' = [call EXCEPT !.done = TRUE,
                            !.ret = build_lender(call.name, call.ctype,
                                        call.website, call.pan, call.data)]
    /\ UNCHANGED <<mode, total, i, pc, cur, val, results, counts, store, flushed, rested>>

SpecBuild == InitBuild /\ [][CallBuildLender]_vars

-----------------------------------------------------------------------------
(* Claims *)

\* json.dumps(ALL_INDIA_STATES) as a record field
canonical_states ==
    PyStr(json_dumps(PyList([k \in 1..Len(ALL_INDIA_STATES) |->
                                 PyStr(ALL_INDIA_STATES[k])])))

\* the loop stands between two iterations, or has ended
BetweenIterations == pc \in {"for", "done"}

\* the save interval of the run in progress
SaveEvery == IF mode = "banks" THEN BANKS_SAVE_EVERY ELSE NBFCS_SAVE_EVERY

\* C1: once the K-th institution or the last institution has been processed,
\* whatever its outcome, the store holds exactly the records accumulated so
\* far; so at the end of a run the store holds all of them.
C1_FlushedEveryKthAndLast ==
    (BetweenIterations /\ i > 0 /\ (i % SaveEvery = 0 \/ i = total))
        => store.rows = results

served_states(resp) ==
    LET data == extract_with_gemini(TRUE, resp)
        raw  == IF data.t = "dict" THEN get(data, <<"o","p","e","r","a","t","i","n","g","_","s","t","a","t","e","s">>, PyNone)
                ELSE PyNone
    IN  IF raw.t = "list" THEN raw ELSE PyList(<<>>)

\* C3: every emitted record with pan_india true lists the 36 canonical
\* states, and every record with pan_india false lists exactly what the
\* service returned (possibly nothing).
C3_PanIndiaMeansAllStates ==
    \A k \in 1..Len(results) :
        IF results[k].pan_india = PyBool(TRUE)
        THEN results[k].operating_states = canonical_states
        ELSE \E resp \in RESPONSES :
                results[k].operating_states = PyStr(json_dumps(served_states(resp)))

\* C4: after an interruption the store still holds, complete and unmodified,
\* the header and every row of the most recent completed flush.
C4_InterruptKeepsLastFlush ==
    (pc = "interrupted" /\ flushed.exists) =>
        /\ store.header = flushed.header
        /\ Len(store.rows) >= Len(flushed.rows)
        /\ \A k \in 1..Len(flushed.rows) : store.rows[k] = flushed.rows[k]

\* the categories run_banks assigns
PRE_TRUSTED == { <<"S","m","a","l","l"," ","F","i","n","a","n","c","e"," ","B","a","n","k">>, <<"F","o","r","e","i","g","n"," ","B","a","n","k">>, <<"P","S","U"," ","B","a","n","k">>, <<"P","r","i","v","a","t","e"," ","B","a","n","k">> }

ValidateDone == call.fn = "validate_bank" /\ call.done

\* a hard-reject term occurs in the URL, in any letter case
HasRejectTerm(url) ==
    \E t \in BANK_REJECT_TERMS :
        \E k \in 0..(Len(url) - Len(t)) :
            \A j \in 1..Len(t) : lower_char(url[k + j]) = t[j]

\* C5 as stated: an institution of a pre-trusted category passes validation
\* with score 100 whatever its URL.
C5_PreTrustedAlwaysPass ==
    (ValidateDone /\ company_type(call.name) \in PRE_TRUSTED)
        => (call.ret.is_valid /\ call.ret.score = 100)

\* C5 amended: no category is trusted; an institution of a bank-type
\* category passes exactly when its URL holds no hard-reject term and its
\* score is at least 50, and a hard reject scores 0.
C5_PassIffScoredFifty ==
    (ValidateDone /\ company_type(call.name) \in PRE_TRUSTED)
        => /\ call.ret.is_valid <=>
                  (~HasRejectTerm(call.url) /\ call.ret.score >= 50)
           /\ HasRejectTerm(call.url) => call.ret.score = 0

\* C5 witness: a bank-type institution whose URL holds no reject term has
\* been validated and has failed on its score.
C5_Witness ==
    /\ ValidateDone /\ company_type(call.name) \in PRE_TRUSTED
    /\ ~HasRejectTerm(call.url)
    /\ ~call.ret.is_valid /\ call.ret.score > 0

\* C6: a URL holding a hard-reject term in any letter case, anywhere, is
\* rejected with score 0 and the non-banking-domain reason, whatever
\* positive checks it also matches.
C6_RejectTermAlwaysRejects ==
    (ValidateDone /\ HasRejectTerm(call.url))
        => call.ret = [is_valid |-> FALSE, score |-> 0,
                       reason |-> <<"n","o","n","-","b","a","n","k","i","n","g"," ","d","o","m","a","i","n"," ","d","e","t","e","c","t","e","d">>]

\* C6 witness: a rejected URL whose reject term is in its path and not in
\* lower case, and whose domain is on the known-bank whitelist.
C6_Witness ==
    /\ ValidateDone /\ HasRejectTerm(call.url)
    /\ ~reject_case_sensitive(call.url)
    /\ ~HasRejectTerm(domain_root(lower(call.url)))
    /\ \E known \in KNOWN_BANK_DOMAINS :
          Contains(domain_root(lower(call.url)), known)
    /\ ~call.ret.is_valid

\* C7: the score validate_bank returns lies in 0..100.
C7_ScoreWithinHundred ==
    ValidateDone => call.ret.score \in 0..100

BuildDone == call.fn = "build_lender" /\ call.done

\* the value under operating_states in the payload of the call (None when
\* the key is missing)
payload_states == get(call.data, <<"o","p","e","r","a","t","i","n","g","_","s","t","a","t","e","s">>, PyNone)

IsSentinel(x) == x = PyStr(<<"P","A","N","_","I","N","D","I","A">>) \/ x = PyList(<<PyStr(<<"P","A","N","_","I","N","D","I","A">>)>>)

\* C8: with the known pan-India flag true, or the sentinel PAN_INDIA (bare
\* or as a one-element list) in the payload, the record lists the 36
\* canonical states in their order and has pan_india true.
C8_PanIndiaForcesAllStates ==
    (BuildDone /\ (call.pan \/ IsSentinel(payload_states)))
        => /\ call.ret.operating_states = canonical_states
           /\ call.ret.pan_india = PyBool(TRUE)
           /\ Len(ALL_INDIA_STATES) = 36

\* C8 witness: built without the flag from the bare string PAN_INDIA.
C8_Witness ==
    /\ BuildDone /\ ~call.pan
    /\ payload_states = PyStr(<<"P","A","N","_","I","N","D","I","A">>)
    /\ call.ret.pan_india = PyBool(TRUE)

\* C9: with the flag false and no sentinel, pan_india is false and the
\* record lists exactly the payload's list, in its order, or the empty list
\* when the payload value is missing, null or no list.
C9_OtherwiseThePayloadList ==
    (BuildDone /\ ~call.pan /\ ~IsSentinel(payload_states))
        => /\ call.ret.pan_india = PyBool(FALSE)
           /\ call.ret.operating_states =
                 PyStr(json_dumps(IF payload_states.t = "list"
                                  THEN payload_states ELSE PyList(<<>>)))

\* C9 witness: built without the flag from a list of two states, which the
\* record holds in the payload's order.
C9_Witness ==
    /\ BuildDone /\ ~call.pan
    /\ payload_states = PyList(<<PyStr(<<"G","u","j","a","r","a","t">>), PyStr(<<"M","a","h","a","r","a","s","h","t","r","a">>)>>)
    /\ call.ret.operating_states = PyStr(<<"[","\"","G","u","j","a","r","a","t","\"",","," ","\"","M","a","h","a","r","a","s","h","t","r","a","\"","]">>)

\* C10: no result of the extraction service aborts the run.
C10_NoServiceResultAborts ==
    pc # "crashed"


\* C11: a delay separates any two consecutive extraction-service calls of a
\* run: whenever the run is about to call the service, time.sleep(2) has
\* happened since the previous call.
C11_DelayBetweenServiceCalls ==
    pc = "extract" => rested

\* the error text of a record
error_of(r) == r.error.v

\* the record is one run_banks appends for a rejected URL
IsRejection(r) ==
    /\ r.extraction_status = PyStr(<<"f","a","i","l","e","d">>)
    /\ Contains(error_of(r), <<"B","a","n","k"," ","v","a","l","i","d","a","t","i","o","n"," ","f","a","i","l","e","d">>)

\* C12: in a banks run the service is only called for an institution whose
\* validate_bank result is_valid, and an institution that fails validation
\* gets a failed record whose error carries the score and reason of its
\* validation and is left without a service call; the rejection records are
\* as many as the rejected institutions.
C12_RejectedNeverExtracted ==
    mode = "banks" =>
        /\ pc = "extract" =>
               /\ val = validate_bank(cur.name, cur.website)
               /\ val.is_valid
        /\ pc \in {"save", "save_write", "sleep"} =>
               /\ val.is_valid
               /\ results[Len(results)].company_name = PyStr(cur.name)
               /\ ~IsRejection(results[Len(results)])
        /\ (pc = "for" /\ val # NO_VALIDATION /\ ~val.is_valid) =>
               /\ cur = NO_INSTITUTION
               /\ results # <<>>
               /\ results[Len(results)].extraction_status = PyStr(<<"f","a","i","l","e","d">>)
               /\ results[Len(results)].error =
                      PyStr(<<"B","a","n","k"," ","v","a","l","i","d","a","t","i","o","n"," ","f","a","i","l","e","d"," ","(">> \o str_int(val.score)
                            \o <<"/","1","0","0",")",":"," ">> \o val.reason)
        /\ Cardinality({k \in 1..Len(results) : IsRejection(results[k])})
               = counts.skip

\* C12 witness: a banks run about to call the service for a validated bank
\* after an earlier bank was rejected and recorded with its reason.
C12_Witness ==
    /\ mode = "banks" /\ pc = "extract" /\ val.is_valid
    /\ \E k \in 1..Len(results) :
           /\ IsRejection(results[k])
           /\ Contains(error_of(results[k]), <<"n","a","m","e"," ","w","o","r","d"," ","i","n"," ","d","o","m","a","i","n">>)

\* the fields build_lender fills from the service's payload; in the
\* dataclass each has a default
ENRICHMENT_FIELDS == {
    "aum_crores", "product_types", "primary_product", "hq_location",
    "hq_state", "operating_states", "pan_india", "established_year",
    "employee_count", "ticket_size_min", "ticket_size_max",
    "has_subsidiaries", "phone", "email" }

\* the record has status success, no error, and the enrichment data
\* build_lender takes from the payload the service answered with
IsSuccessShape(r) ==
    /\ r.extraction_status = PyStr(<<"s","u","c","c","e","s","s">>)
    /\ r.error = PyStr(<<>>)
    /\ \E flag \in BOOLEAN :
          r = build_lender(r.company_name.v, r.company_type.v, r.website.v,
                           flag, PAYLOAD)

\* the record has status failed, an error, and every enrichment field at
\* its default
IsFailedShape(r) ==
    /\ r.extraction_status = PyStr(<<"f","a","i","l","e","d">>)
    /\ r.error.t = "str" /\ r.error.v # <<>>
    /\ \A f \in ENRICHMENT_FIELDS : r[f] = LENDER_DEFAULTS[f]

\* C13: every emitted record is a success record with an empty error and
\* the service's enrichment data, or a failed record with a non-empty error
\* and every enrichment field at its default, and never both.
C13_SuccessXorFailedShape ==
    \A k \in 1..Len(results) :
        IsSuccessShape(results[k]) # IsFailedShape(results[k])

\* C14: every entry of TOP_50_PRIVATE_BANKS passes validate_bank: its URL
\* holds no reject term, it scores at least 50 and is_valid is true, so
\* run_banks calls the service for it.
C14_CuratedListPasses ==
    ValidateDone =>
        /\ ~HasRejectTerm(call.url)
        /\ call.ret.score >= 50
        /\ call.ret.is_valid

\* s is t cut after some element
IsPrefix(s, t) ==
    /\ Len(s) <= Len(t)
    /\ \A k \in 1..Len(s) : s[k] = t[k]

C16_SaveNeverOnEmptyResults ==
    /\ pc \in {"save", "save_write", "sleep"} =>
           /\ results # <<>>
           /\ results[Len(results)].company_name = PyStr(cur.name)
    /\ (mode # "none" /\ total = 0) =>
           /\ pc \in {"for", "done", "interrupted"}
           /\ store = NO_FILE

\* C16 witness: save is entered at the last institution with the one record
\* of the run.
C16_Witness ==
    /\ pc = "save" /\ i = total
    /\ Len(results) = 1
    /\ counts.skip > 0
====
